---- MODULE Spec2Model ----
(***************************************************************************)
(* Model of the query-params example application (src/src/index.tsx): the  *)
(* filter parser, the product lookup over the seeded in-memory table, the  *)
(* Filter URL builder and the route handlers of the Hono application.      *)
(*                                                                         *)
(* A JavaScript string is a sequence of one-character strings.  A value of *)
(* type  string | null | undefined  is a record [tag, s].                  *)
(***************************************************************************)
EXTENDS Integers, Sequences, FiniteSets, TLC

VARIABLES
    products,   \* the rows of table "products", in rowid order
    req,        \* the operation handled last, with its inputs
    resp        \* what that operation returned

vars == <<products, req, resp>>

(***************************************************************************)
(* JavaScript values.                                                      *)
(***************************************************************************)
Undefined == [tag |-> "undefined", s |-> <<>>]
Null == [tag |-> "null", s |-> <<>>]
Str(s) == [tag |-> "string", s |-> s]

\* ToBoolean of a string | null | undefined: only a non-empty string is truthy.
Truthy(v) == v.tag = "string" /\ v.s # <<>>

\* v ?? d
Coalesce(v, d) == IF v.tag \in {"undefined", "null"} THEN d ELSE v

RECURSIVE Concat(_)
Concat(ss) == IF ss = <<>> THEN <<>> ELSE Head(ss) \o Concat(Tail(ss))

(***************************************************************************)
(* Bounds of the model.                                                    *)
(***************************************************************************)
\* rows seeded at startup (the source seeds 100)
NumSeed == 3
\* longest query string given to the functions called directly
MaxQueryLen == 2

(***************************************************************************)
(* Database and shared setup.                                              *)
(***************************************************************************)
small == <<"s", "m", "a", "l", "l">>
medium == <<"m", "e", "d", "i", "u", "m">>
large == <<"l", "a", "r", "g", "e">>

Size == {small, medium, large}

sizes == <<small, medium, large>>

adjectives ==
    << <<"A", "m", "a", "z", "i", "n", "g">>,
       <<"F", "a", "n", "t", "a", "s", "t", "i", "c">>,
       <<"G", "r", "e", "a", "t">>,
       <<"S", "u", "p", "e", "r">>,
       <<"A", "w", "e", "s", "o", "m", "e">>,
       <<"C", "o", "o", "l">>,
       <<"N", "i", "c", "e">>,
       <<"P", "r", "e", "m", "i", "u", "m">>,
       <<"D", "e", "l", "u", "x", "e">>,
       <<"U", "l", "t", "i", "m", "a", "t", "e">> >>

nouns ==
    << <<"W", "i", "d", "g", "e", "t">>,
       <<"G", "a", "d", "g", "e", "t">>,
       <<"T", "o", "o", "l">>,
       <<"D", "e", "v", "i", "c", "e">>,
       <<"I", "t", "e", "m">>,
       <<"P", "r", "o", "d", "u", "c", "t">>,
       <<"T", "h", "i", "n", "g">>,
       <<"G", "i", "z", "m", "o">>,
       <<"C", "o", "n", "t", "r", "a", "p", "t", "i", "o", "n">>,
       <<"A", "p", "p", "a", "r", "a", "t", "u", "s">> >>

\* String(n) for a natural number n
DigitChars == <<"0", "1", "2", "3", "4", "5", "6", "7", "8", "9">>

RECURSIVE NumberToString(_)
NumberToString(n) ==
    IF n < 10 THEN <<DigitChars[n + 1]>>
    ELSE NumberToString(n \div 10) \o <<DigitChars[(n % 10) + 1]>>

\* `${adjective} ${noun} ${i + 1}`
SeedTitle(adjective, noun, i) ==
    Concat(<<adjective, <<" ">>, noun, <<" ">>, NumberToString(i + 1)>>)

\* class Product: one row of the table
NewProduct(id, title, size) == [id |-> id, title |-> title, size |-> size]

\* INSERT INTO products (title, size) VALUES (?, ?): AUTOINCREMENT gives the
\* new row the next id, and the row is last in rowid order.
Insert(rows, title, size) == Append(rows, NewProduct(Len(rows) + 1, title, size))

(***************************************************************************)
(* SQLite's LOWER and LIKE (both fold the ASCII letters only).             *)
(***************************************************************************)
UpperChars ==
    <<"A", "B", "C", "D", "E", "F", "G", "H", "I", "J", "K", "L", "M",
      "N", "O", "P", "Q", "R", "S", "T", "U", "V", "W", "X", "Y", "Z">>
LowerChars ==
    <<"a", "b", "c", "d", "e", "f", "g", "h", "i", "j", "k", "l", "m",
      "n", "o", "p", "q", "r", "s", "t", "u", "v", "w", "x", "y", "z">>

LowerTable == [c \in {UpperChars[i] : i \in 1..26} |->
                  LowerChars[CHOOSE i \in 1..26 : UpperChars[i] = c]]

LowerChar(c) == IF c \in DOMAIN LowerTable THEN LowerTable[c] ELSE c

\* LOWER(s)
Lower(s) == [i \in 1..Len(s) |-> LowerChar(s[i])]

\* text LIKE pattern: % matches any run of characters, _ exactly one
\* character, any other character itself without regard to ASCII case.
\* No ESCAPE clause is given, so no character of the pattern is literal
\* when it is % or _.
RECURSIVE Like(_, _)
Like(text, pattern) ==
    IF pattern = <<>> THEN text = <<>>
    ELSE IF Head(pattern) = "%"
         THEN Like(text, Tail(pattern))
              \/ (text # <<>> /\ Like(Tail(text), pattern))
    ELSE IF text = <<>> THEN FALSE
    ELSE IF Head(pattern) = "_" THEN Like(Tail(text), Tail(pattern))
    ELSE LowerChar(Head(text)) = LowerChar(Head(pattern))
         /\ Like(Tail(text), Tail(pattern))

(***************************************************************************)
(* parseFilterInput                                                        *)
(***************************************************************************)
\* parseFilterInput with the size compared without regard to case
parseFilterInput_AnyCase(input) ==
    LET isValid == Lower(input.size.s) \in Size
        size == IF Truthy(input.size) /\ isValid THEN input.size.s ELSE small
        query == Coalesce(input.query, Null)
    IN  [size |-> size, query |-> query]

\* parseFilterInput with  input.query || null  for  input.query ?? null
parseFilterInput_EmptyIsNull(input) ==
    LET isValid == input.size.s \in Size
        size == IF Truthy(input.size) /\ isValid THEN input.size.s ELSE small
        query == IF Truthy(input.query) THEN input.query ELSE Null
    IN  [size |-> size, query |-> query]

parseFilterInput(input) ==
    LET isValid == \/ input.size.s = small
                   \/ input.size.s = medium
                   \/ input.size.s = large
        size == IF Truthy(input.size) /\ isValid THEN input.size.s ELSE small
        query == Coalesce(input.query, Null)
    IN  [size |-> size, query |-> query]

(***************************************************************************)
(* The prepared statement  filter  and getAllFilteredProducts.             *)
(***************************************************************************)
\* WHERE (?1 IS NULL OR LOWER(title) LIKE LOWER(?2)) AND size = ?3
FilterWhere(row, p1, p2, p3) ==
    /\ (p1 = Null \/ Like(Lower(row.title), Lower(p2.s)))
    /\ row.size = p3

\* filter.all(p1, p2, p3): the matching rows in rowid order
RECURSIVE FilterAll(_, _, _, _)
FilterAll(rows, p1, p2, p3) ==
    IF rows = <<>> THEN <<>>
    ELSE (IF FilterWhere(Head(rows), p1, p2, p3) THEN <<Head(rows)>> ELSE <<>>)
         \o FilterAll(Tail(rows), p1, p2, p3)

\* getAllFilteredProducts with the text filter never applied
getAllFilteredProducts_NoQuery(query, size) ==
    FilterAll(products, Null, Null, size)

getAllFilteredProducts(query, size) ==
    LET formattedQuery ==
            IF Truthy(query) THEN Str(<<"%">> \o query.s \o <<"%">>) ELSE Null
    IN  FilterAll(products, formattedQuery, formattedQuery, size)

(***************************************************************************)
(* Helpers: encodeURIComponent and buildFilterUrl.                         *)
(***************************************************************************)
\* the characters encodeURIComponent leaves alone
UriUnreserved ==
    {UpperChars[i] : i \in 1..26} \cup {LowerChars[i] : i \in 1..26}
    \cup {DigitChars[i] : i \in 1..10}
    \cup {"-", "_", ".", "!", "~", "*", "'", "(", ")"}

\* the escape of each other ASCII character the model uses: % and the two
\* hexadecimal digits of its code
UriEscape(c) ==
    CASE c = " " -> <<"%", "2", "0">>
      [] c = "#" -> <<"%", "2", "3">>
      [] c = "%" -> <<"%", "2", "5">>
      [] c = "&" -> <<"%", "2", "6">>
      [] c = "+" -> <<"%", "2", "B">>
      [] c = "/" -> <<"%", "2", "F">>
      [] c = "=" -> <<"%", "3", "D">>
      [] c = "?" -> <<"%", "3", "F">>

RECURSIVE encodeURIComponent(_)
encodeURIComponent(s) ==
    IF s = <<>> THEN <<>>
    ELSE (IF Head(s) \in UriUnreserved THEN <<Head(s)>> ELSE UriEscape(Head(s)))
         \o encodeURIComponent(Tail(s))

\* buildFilterUrl without the call of encodeURIComponent
buildFilterUrl_Unencoded(baseUrl, query, size) ==
    LET formattedQuery ==
            IF Truthy(query)
            THEN <<"&", "q", "u", "e", "r", "y", "=">> \o query.s
            ELSE <<>>
    IN  Concat(<<baseUrl, <<"?", "s", "i", "z", "e", "=">>, size, formattedQuery>>)

\* buildFilterUrl naming the query parameter q
buildFilterUrl_WrongParam(baseUrl, query, size) ==
    LET formattedQuery ==
            IF Truthy(query)
            THEN <<"&", "q", "=">> \o encodeURIComponent(query.s)
            ELSE <<>>
    IN  Concat(<<baseUrl, <<"?", "s", "i", "z", "e", "=">>, size, formattedQuery>>)

buildFilterUrl(baseUrl, query, size) ==
    LET formattedQuery ==
            IF Truthy(query)
            THEN <<"&", "q", "u", "e", "r", "y", "=">> \o encodeURIComponent(query.s)
            ELSE <<>>
    IN  Concat(<<baseUrl, <<"?", "s", "i", "z", "e", "=">>, size, formattedQuery>>)

(***************************************************************************)
(* Components/partials.  An element is a record with its tag, the          *)
(* attributes the server computes and its children; the client-side        *)
(* expressions of the data-on attributes are constant text and left out.   *)
(***************************************************************************)
Root(children) == [tag |-> "html", children |-> children]

Body(children) == [tag |-> "body", children |-> children]

\* the <select> with the option of props.size selected, and the text input
FilterFields(props) == [tag |-> "fields", selected |-> props.size, value |-> props.query]

\* one <li> per product, in the order given
Products(props) == [tag |-> "products", items |-> props.products]

\* <form>; signals is the pair of data-signals attributes, or Undefined
Form(signals, fields) == [tag |-> "form", signals |-> signals, fields |-> fields]

\* data-signals:size={`'${size}'`} data-signals:query={`'${query ?? ""}'`}
Signals(size, query) == [size |-> size, query |-> Coalesce(query, Str(<<>>)).s]

\* <a href={href}>Bookmark or share</a>
BookmarkLink(href) == [tag |-> "a", href |-> href]

(***************************************************************************)
(* Responses: c.html, c.text and SSE.stream with the instructions the      *)
(* callback emits, in order.                                               *)
(***************************************************************************)
NoDoc == [tag |-> "none", children |-> <<>>]

Html(doc) == [kind |-> "html", doc |-> doc, events |-> <<>>, text |-> ""]

Text(text) == [kind |-> "text", doc |-> NoDoc, events |-> <<>>, text |-> text]

SseStream(events) == [kind |-> "event-stream", doc |-> NoDoc, events |-> events, text |-> ""]

\* stream.patchElements(elements.toString())
PatchElements(elements) == [type |-> "patch", elements |-> elements, script |-> <<>>]

\* stream.executeScript(script)
ExecuteScript(script) == [type |-> "script", elements |-> NoDoc, script |-> script]

HeaderTrue == <<"t", "r", "u", "e">>

\* IsFragment testing that the header is present, whatever its value
IsFragment_HeaderPresent(c) == c.header.tag = "string"

\* c.req.header("datastar-request") === "true"
IsFragment(c) == c.header = Str(HeaderTrue)

(***************************************************************************)
(* Route handlers.  c is the request: c.path, and c.size, c.query, c.header *)
(* for c.req.query("size"), c.req.query("query") and                       *)
(* c.req.header("datastar-request").                                       *)
(***************************************************************************)
IndexResponse(c) == Html(Root(<<[tag |-> "ul", items |-> 4]>>))

\* SearchMpaResponse looking up with the size parameter as received
SearchMpaResponse_RawSize(c) ==
    LET f == parseFilterInput([size |-> c.size, query |-> c.query])
        filteredProducts == getAllFilteredProducts(f.query, c.size.s)
    IN  Html(Root(<<
            Form(Undefined,
                 FilterFields([size |-> f.size,
                               query |-> Coalesce(c.query, Str(<<>>)).s])),
            Products([products |-> filteredProducts]) >>))

SearchMpaResponse(c) ==
    LET f == parseFilterInput([size |-> c.size, query |-> c.query])
        filteredProducts == getAllFilteredProducts(f.query, f.size)
    IN  Html(Root(<<
            Form(Undefined,
                 FilterFields([size |-> f.size,
                               query |-> Coalesce(c.query, Str(<<>>)).s])),
            Products([products |-> filteredProducts]) >>))

ScriptPrefix ==
    <<"w", "i", "n", "d", "o", "w", ".", "h", "i", "s", "t", "o", "r", "y", ".",
      "r", "e", "p", "l", "a", "c", "e", "S", "t", "a", "t", "e", "(", "{", "}",
      ",", " ", "'", "'", ",", " ", "n", "e", "w", " ", "U", "R", "L", "(", "'">>

ScriptSuffix ==
    <<"'", ",", " ", "w", "i", "n", "d", "o", "w", ".", "l", "o", "c", "a", "t",
      "i", "o", "n", ".", "h", "r", "e", "f", ")", ".", "t", "o", "S", "t", "r",
      "i", "n", "g", "(", ")", ")">>

\* `window.history.replaceState({}, '', new URL('${filterUrl}', window.location.href).toString())`
ReplaceStateScript(filterUrl) == Concat(<<ScriptPrefix, filterUrl, ScriptSuffix>>)

\* SearchUpdateUrlClientSideResponse also sending a history-replace script
SearchUpdateUrlClientSideResponse_WithScript(c) ==
    LET f == parseFilterInput([size |-> c.size, query |-> c.query])
        filteredProducts == getAllFilteredProducts(f.query, f.size)
        header ==
            Form(Signals(f.size, f.query),
                 FilterFields([size |-> f.size,
                               query |-> Coalesce(f.query, Str(<<>>)).s]))
    IN  IF IsFragment(c)
        THEN SseStream(<<
                 PatchElements(Body(<<header,
                                      Products([products |-> filteredProducts])>>)),
                 ExecuteScript(ReplaceStateScript(
                     buildFilterUrl(c.path, f.query, f.size))) >>)
        ELSE Html(Root(<<header, Products([products |-> filteredProducts])>>))

SearchUpdateUrlClientSideResponse(c) ==
    LET f == parseFilterInput([size |-> c.size, query |-> c.query])
        filteredProducts == getAllFilteredProducts(f.query, f.size)
        header ==
            Form(Signals(f.size, f.query),
                 FilterFields([size |-> f.size,
                               query |-> Coalesce(f.query, Str(<<>>)).s]))
    IN  IF IsFragment(c)
        THEN SseStream(<<
                 PatchElements(Body(<<header,
                                      Products([products |-> filteredProducts])>>)) >>)
        ELSE Html(Root(<<header, Products([products |-> filteredProducts])>>))

\* SearchServerPatchResponse with the script's URL put together a second
\* time, the way the client-side route does: '?size=' + size + '&query=' + query
SearchServerPatchResponse_SecondUrl(c) ==
    LET f == parseFilterInput([size |-> c.size, query |-> c.query])
        filteredProducts == getAllFilteredProducts(f.query, f.size)
        filterUrl == buildFilterUrl(c.path, f.query, f.size)
        scriptUrl ==
            Concat(<<c.path, <<"?", "s", "i", "z", "e", "=">>, f.size,
                     <<"&", "q", "u", "e", "r", "y", "=">>,
                     Coalesce(f.query, Str(<<>>)).s>>)
        form ==
            Form(Signals(f.size, f.query),
                 FilterFields([size |-> f.size,
                               query |-> Coalesce(f.query, Str(<<>>)).s]))
        link == BookmarkLink(filterUrl)
    IN  IF IsFragment(c)
        THEN SseStream(<<
                 PatchElements(Body(<<form, link,
                                      Products([products |-> filteredProducts])>>)),
                 ExecuteScript(ReplaceStateScript(scriptUrl)) >>)
        ELSE Html(Root(<<form, link, Products([products |-> filteredProducts])>>))

\* SearchServerPatchResponse building the full page's link without the query
SearchServerPatchResponse_PageLinkNoQuery(c) ==
    LET f == parseFilterInput([size |-> c.size, query |-> c.query])
        filteredProducts == getAllFilteredProducts(f.query, f.size)
        filterUrl == buildFilterUrl(c.path, f.query, f.size)
        form ==
            Form(Signals(f.size, f.query),
                 FilterFields([size |-> f.size,
                               query |-> Coalesce(f.query, Str(<<>>)).s]))
    IN  IF IsFragment(c)
        THEN SseStream(<<
                 PatchElements(Body(<<form, BookmarkLink(filterUrl),
                                      Products([products |-> filteredProducts])>>)),
                 ExecuteScript(ReplaceStateScript(filterUrl)) >>)
        ELSE Html(Root(<<form, BookmarkLink(buildFilterUrl(c.path, Null, f.size)),
                         Products([products |-> filteredProducts])>>))

\* SearchServerPatchResponse calling executeScript before patchElements
SearchServerPatchResponse_ScriptFirst(c) ==
    LET f == parseFilterInput([size |-> c.size, query |-> c.query])
        filteredProducts == getAllFilteredProducts(f.query, f.size)
        filterUrl == buildFilterUrl(c.path, f.query, f.size)
        form ==
            Form(Signals(f.size, f.query),
                 FilterFields([size |-> f.size,
                               query |-> Coalesce(f.query, Str(<<>>)).s]))
        link == BookmarkLink(filterUrl)
    IN  IF IsFragment(c)
        THEN SseStream(<<
                 ExecuteScript(ReplaceStateScript(filterUrl)),
                 PatchElements(Body(<<form, link,
                                      Products([products |-> filteredProducts])>>)) >>)
        ELSE Html(Root(<<form, link, Products([products |-> filteredProducts])>>))

SearchServerPatchResponse(c) ==
    LET f == parseFilterInput([size |-> c.size, query |-> c.query])
        filteredProducts == getAllFilteredProducts(f.query, f.size)
        filterUrl == buildFilterUrl(c.path, f.query, f.size)
        form ==
            Form(Signals(f.size, f.query),
                 FilterFields([size |-> f.size,
                               query |-> Coalesce(f.query, Str(<<>>)).s]))
        link == BookmarkLink(filterUrl)
    IN  IF IsFragment(c)
        THEN SseStream(<<
                 PatchElements(Body(<<form, link,
                                      Products([products |-> filteredProducts])>>)),
                 ExecuteScript(ReplaceStateScript(filterUrl)) >>)
        ELSE Html(Root(<<form, link, Products([products |-> filteredProducts])>>))

SearchSessionsResponse(c) == Text("Search sessions!")

SearchSessionsDetailResponse(c) == Text("Search sessions detail")

(***************************************************************************)
(* The requests and calls the model makes.                                 *)
(***************************************************************************)
PathIndex == <<"/">>
PathSearchMpa == <<"/", "s", "e", "a", "r", "c", "h", "-", "m", "p", "a">>
PathSearchUpdateUrlClientSide ==
    <<"/", "s", "e", "a", "r", "c", "h", "-", "u", "p", "d", "a", "t", "e", "-",
      "u", "r", "l", "-", "c", "l", "i", "e", "n", "t", "-", "s", "i", "d", "e">>
PathSearchServerPatch ==
    <<"/", "s", "e", "a", "r", "c", "h", "-", "s", "e", "r", "v", "e", "r", "-",
      "p", "a", "t", "c", "h">>
PathSearchSessions ==
    <<"/", "s", "e", "a", "r", "c", "h", "/", "s", "e", "s", "s", "i", "o", "n", "s">>

SearchPaths == {PathSearchMpa, PathSearchUpdateUrlClientSide, PathSearchServerPatch}

\* the (adjective, noun, size) index triples one iteration of the seeding
\* loop draws with Math.random(): "Amazing Widget" small, "Great Tool"
\* medium, "Super Gadget" small or large
SeedDraws == {<<0, 0, 0>>, <<2, 2, 1>>, <<3, 1, 0>>, <<3, 1, 2>>}

\* c.req.query("size"): absent, empty, the three sizes, and two invalid ones
RequestSizes ==
    {Undefined, Str(<<>>), Str(small), Str(medium), Str(large),
     Str(<<"S", "m", "a", "l", "l">>), Str(<<"x", "l">>)}

\* c.req.query("query"): absent, empty and some texts
RequestQueries ==
    {Undefined, Str(<<>>), Str(<<"w", "i", "d", "g", "e", "t">>),
     Str(<<"G", "E", "T">>), Str(<<"_">>), Str(<<"%">>), Str(<<"t", " ", "1">>),
     Str(<<"'">>)}

\* c.req.header("datastar-request")
RequestHeaders == {Undefined, Str(HeaderTrue), Str(<<"f", "a", "l", "s", "e">>)}

\* :sessionId
SessionIds == {<<"1">>, <<"a">>}

\* the inputs of the functions called directly
QueryChars == {"a", "W", "%", "_", " ", "'", "&"}

QueryStrings ==
    UNION {[1..n -> QueryChars] : n \in 0..MaxQueryLen}
    \cup {<<"f", "o", "o", " ", "b", "a", "r">>}

CallSizes == RequestSizes \cup {Null}

CallQueries == {Undefined, Null} \cup {Str(q) : q \in QueryStrings}

CallPaths == {<<"/", "x">>, PathSearchServerPatch}

NoRequest ==
    [op |-> "none", path |-> <<>>, size |-> Undefined, query |-> Undefined,
     header |-> Undefined]

NoResponse == [kind |-> "none", doc |-> NoDoc, events |-> <<>>, text |-> ""]

Request(path, size, query, header) ==
    [op |-> "GET", path |-> path, size |-> size, query |-> query, header |-> header]

(***************************************************************************)
(* The program: module load seeds the table, then the server handles       *)
(* requests one at a time.                                                 *)
(***************************************************************************)
Init ==
    /\ products = <<>>
    /\ req = NoRequest
    /\ resp = NoResponse

\* module load is over and no request is being handled
Idle == Len(products) = NumSeed /\ req.op = "none"

\* one iteration of  for (let i = 0; i < 100; i++) { ... insert.run(title, size) }
Seed(draw) ==
    /\ Len(products) < NumSeed
    /\ products' = Insert(products,
                          SeedTitle(adjectives[draw[1] + 1], nouns[draw[2] + 1],
                                    Len(products)),
                          sizes[draw[3] + 1])
    /\ UNCHANGED <<req, resp>>

GetIndex(header) ==
    /\ Idle
    /\ req' = Request(PathIndex, Undefined, Undefined, header)
    /\ resp' = IndexResponse(req')
    /\ UNCHANGED products

\* GetSearchMpa also recording the search as a row of the table
GetSearchMpa_Inserting(size, query, header) ==
    /\ Idle
    /\ req' = Request(PathSearchMpa, size, query, header)
    /\ resp' = SearchMpaResponse(req')
    /\ products' = Insert(products, Coalesce(query, Str(<<>>)).s, small)

GetSearchMpa(size, query, header) ==
    /\ Idle
    /\ req' = Request(PathSearchMpa, size, query, header)
    /\ resp' = SearchMpaResponse(req')
    /\ UNCHANGED products

GetSearchUpdateUrlClientSide(size, query, header) ==
    /\ Idle
    /\ req' = Request(PathSearchUpdateUrlClientSide, size, query, header)
    /\ resp' = SearchUpdateUrlClientSideResponse(req')
    /\ UNCHANGED products

GetSearchServerPatch(size, query, header) ==
    /\ Idle
    /\ req' = Request(PathSearchServerPatch, size, query, header)
    /\ resp' = SearchServerPatchResponse(req')
    /\ UNCHANGED products

GetSearchSessions(header) ==
    /\ Idle
    /\ req' = Request(PathSearchSessions, Undefined, Undefined, header)
    /\ resp' = SearchSessionsResponse(req')
    /\ UNCHANGED products

GetSearchSessionsDetail(sessionId, header) ==
    /\ Idle
    /\ req' = Request(PathSearchSessions \o <<"/">> \o sessionId,
                      Undefined, Undefined, header)
    /\ resp' = SearchSessionsDetailResponse(req')
    /\ UNCHANGED products

\* the handler has returned and the response is with the client
Complete ==
    /\ req.op # "none"
    /\ req' = NoRequest
    /\ resp' = NoResponse
    /\ UNCHANGED products

Next ==
    \/ \E draw \in SeedDraws : Seed(draw)
    \/ \E header \in RequestHeaders : GetIndex(header)
    \/ \E size \in RequestSizes, query \in RequestQueries, header \in RequestHeaders :
           GetSearchMpa(size, query, header)
    \/ \E size \in RequestSizes, query \in RequestQueries, header \in RequestHeaders :
           GetSearchUpdateUrlClientSide(size, query, header)
    \/ \E size \in RequestSizes, query \in RequestQueries, header \in RequestHeaders :
           GetSearchServerPatch(size, query, header)
    \/ \E header \in RequestHeaders : GetSearchSessions(header)
    \/ \E sessionId \in SessionIds, header \in RequestHeaders :
           GetSearchSessionsDetail(sessionId, header)
    \/ Complete

Spec == Init /\ [][Next]_vars

(***************************************************************************)
(* The functions on their own: each call takes its arguments from the      *)
(* declared parameter types.                                               *)
(***************************************************************************)
CallParseFilterInput(size, query) ==
    /\ req.op = "none"
    /\ req' = [op |-> "parseFilterInput", path |-> <<>>, size |-> size,
               query |-> query, header |-> Undefined]
    /\ resp' = [kind |-> "return", value |-> parseFilterInput([size |-> size, query |-> query])]
    /\ UNCHANGED products

CallBuildFilterUrl(baseUrl, query, size) ==
    /\ req.op = "none"
    /\ req' = [op |-> "buildFilterUrl", path |-> baseUrl, size |-> Str(size),
               query |-> query, header |-> Undefined]
    /\ resp' = [kind |-> "return", value |-> buildFilterUrl(baseUrl, query, size)]
    /\ UNCHANGED products

FnNext ==
    \/ \E size \in CallSizes, query \in CallQueries : CallParseFilterInput(size, query)
    \/ \E baseUrl \in CallPaths, query \in CallQueries \ {Undefined}, size \in Size :
           CallBuildFilterUrl(baseUrl, query, size)
    \/ Complete

FnSpec == Init /\ [][FnNext]_vars

(***************************************************************************)
(* The streams of the fragment-mode requests, one instruction at a time:   *)
(* SSE.stream opens the stream and runs the callback, each call of the     *)
(* callback appends one instruction, and the stream is closed when the     *)
(* callback returns.  The callback runs to completion without yielding.    *)
(***************************************************************************)
\* the instructions the callback of the request's route emits, in order
StreamCallback(c) ==
    IF c.path = PathSearchServerPatch
    THEN SearchServerPatchResponse(c).events
    ELSE SearchUpdateUrlClientSideResponse(c).events

\* the stream as the callback has left it: what it has emitted, what it is
\* still to emit (fixed by the values the handler computed before
\* SSE.stream), and whether the stream is open
StreamResponse(events, pending, state) ==
    [kind |-> "event-stream", doc |-> NoDoc, events |-> events, text |-> "",
     pending |-> pending, stream |-> state]

IsStream == resp.kind = "event-stream"

\* return SSE.stream((stream) => { ... })
StreamOpen(path, size, query, header) ==
    /\ Idle
    /\ req' = Request(path, size, query, header)
    /\ IsFragment(req')
    /\ resp' = StreamResponse(<<>>, StreamCallback(req'), "open")
    /\ UNCHANGED products

\* the next stream.patchElements(...) or stream.executeScript(...) of the callback
StreamEmit ==
    /\ IsStream
    /\ resp.stream = "open"
    /\ resp.pending # <<>>
    /\ resp' = [resp EXCEPT !.events = Append(@, Head(resp.pending)),
                            !.pending = Tail(@)]
    /\ UNCHANGED <<products, req>>

\* return; of the callback: the stream is closed
StreamClose ==
    /\ IsStream
    /\ resp.stream = "open"
    /\ resp.pending = <<>>
    /\ resp' = [resp EXCEPT !.stream = "closed"]
    /\ UNCHANGED <<products, req>>

\* the closed stream has been read by the client
StreamComplete ==
    /\ IsStream
    /\ resp.stream = "closed"
    /\ Complete

StreamNext ==
    \/ \E draw \in SeedDraws : Seed(draw)
    \/ \E path \in {PathSearchUpdateUrlClientSide, PathSearchServerPatch},
          size \in RequestSizes, query \in RequestQueries, header \in RequestHeaders :
           StreamOpen(path, size, query, header)
    \/ StreamEmit
    \/ StreamClose
    \/ StreamComplete

StreamSpec ==
    Init /\ [][StreamNext]_vars /\ WF_vars(StreamEmit) /\ WF_vars(StreamClose)

(***************************************************************************)
(* What the claims speak of.                                               *)
(***************************************************************************)
IsPrefix(p, s) == Len(p) <= Len(s) /\ SubSeq(s, 1, Len(p)) = p

\* the character a percent escape %hl stands for
UriUnescape(h, l) ==
    CASE h = "2" /\ l = "0" -> " "
      [] h = "2" /\ l = "3" -> "#"
      [] h = "2" /\ l = "5" -> "%"
      [] h = "2" /\ l = "6" -> "&"
      [] h = "2" /\ l = "7" -> "'"
      [] h = "2" /\ l = "B" -> "+"
      [] h = "2" /\ l = "F" -> "/"
      [] h = "3" /\ l = "D" -> "="
      [] h = "3" /\ l = "F" -> "?"

HexChars == {DigitChars[i] : i \in 1..10} \cup {"A", "B", "C", "D", "E", "F"}

\* e is a percent-encoding: none of the characters that delimit a URL's
\* parts, and every % starts an escape
RECURSIVE IsPercentEncoded(_)
IsPercentEncoded(e) ==
    IF e = <<>> THEN TRUE
    ELSE IF Head(e) = "%"
         THEN /\ Len(e) >= 3
              /\ e[2] \in HexChars
              /\ e[3] \in HexChars
              /\ IsPercentEncoded(SubSeq(e, 4, Len(e)))
    ELSE Head(e) \notin {" ", "#", "&", "+", "/", "=", "?"}
         /\ IsPercentEncoded(Tail(e))

\* the text a percent-encoding stands for
RECURSIVE PercentDecode(_)
PercentDecode(e) ==
    IF e = <<>> THEN <<>>
    ELSE IF Head(e) = "%"
         THEN <<UriUnescape(e[2], e[3])>> \o PercentDecode(SubSeq(e, 4, Len(e)))
    ELSE <<Head(e)>> \o PercentDecode(Tail(e))

ValidSizeInputs == {Str(small), Str(medium), Str(large)}

\* C1: parseFilterInput is total on the size input: the returned size is the
\* input when the input is exactly "small", "medium" or "large", and "small"
\* for every other input (absent, null, empty, any other string); the size
\* of a Filter is always one of the three values.
C1_ParsedSize ==
    req.op = "parseFilterInput" =>
        /\ resp.value.size \in Size
        /\ req.size \in ValidSizeInputs => resp.value.size = req.size.s
        /\ req.size \notin ValidSizeInputs => resp.value.size = small

\* "Small" is given and "small" is returned
C1_Witness ==
    /\ req.op = "parseFilterInput"
    /\ req.size = Str(<<"S", "m", "a", "l", "l">>)
    /\ resp.value.size = small

\* the "&query=" part of a Filter URL
QueryPart == <<"&", "q", "u", "e", "r", "y", "=">>

\* baseUrl followed by "?size=<size>"
SizePart(baseUrl, size) == Concat(<<baseUrl, <<"?", "s", "i", "z", "e", "=">>, size>>)

\* C3: buildFilterUrl(path, query, size) is path, "?size=<size>" and, exactly
\* when the query is present (not null, not empty), "&query=" and a
\* percent-encoding of the query; "/x", "large", "foo bar" give
\* "/x?size=large&query=foo%20bar".
C3_FilterUrlForm ==
    req.op = "buildFilterUrl" =>
        LET url == resp.value
            head == SizePart(req.path, req.size.s)
            rest == SubSeq(url, Len(head) + 1, Len(url))
            encoded == SubSeq(rest, Len(QueryPart) + 1, Len(rest))
        IN  /\ IsPrefix(head, url)
            /\ IF req.query.tag = "string" /\ req.query.s # <<>>
               THEN /\ IsPrefix(QueryPart, rest)
                    /\ IsPercentEncoded(encoded)
                    /\ PercentDecode(encoded) = req.query.s
               ELSE rest = <<>>
            /\ (/\ req.path = <<"/", "x">>
                /\ req.size.s = large
                /\ req.query = Str(<<"f", "o", "o", " ", "b", "a", "r">>))
               => url = <<"/", "x", "?", "s", "i", "z", "e", "=", "l", "a", "r", "g", "e",
                          "&", "q", "u", "e", "r", "y", "=",
                          "f", "o", "o", "%", "2", "0", "b", "a", "r">>

\* buildFilterUrl("/x", "foo bar", "large") has returned a URL with an escape
C3_Witness ==
    /\ req.op = "buildFilterUrl"
    /\ req.path = <<"/", "x">>
    /\ req.size.s = large
    /\ req.query = Str(<<"f", "o", "o", " ", "b", "a", "r">>)
    /\ \E i \in 1..Len(resp.value) : resp.value[i] = "%"

\* C7 as claimed: parseFilterInput keeps a present, non-empty query and
\* returns the absent value for every other query input, the empty string
\* included.
C7_EmptyQueryAbsent ==
    req.op = "parseFilterInput" =>
        resp.value.query = (IF Truthy(req.query) THEN req.query ELSE Null)

\* C7 as amended: parseFilterInput keeps every query that is a string, the
\* empty string included, and returns the absent value (null) for an absent
\* or null query only.
C7_QueryKept ==
    req.op = "parseFilterInput" =>
        resp.value.query = (IF req.query.tag = "string" THEN req.query ELSE Null)

\* the empty string is given and the Filter's query is the empty string
C7_Witness ==
    /\ req.op = "parseFilterInput"
    /\ req.query = Str(<<>>)
    /\ resp.value.query = Str(<<>>)

\* a request to one of the three search routes has been handled
IsSearchRequest == req.op = "GET" /\ req.path \in SearchPaths

\* the request carries the header datastar-request: true
HeaderIsTrue(c) == c.header = Str(<<"t", "r", "u", "e">>)

\* the Filter of the request handled
RequestFilter == parseFilterInput([size |-> req.size, query |-> req.query])

\* the markup of a response: the document, or the elements of the patch
Markup(r) == IF r.kind = "event-stream" THEN r.events[1].elements ELSE r.doc

\* the response is a full HTML document, with an <html> root
IsFullDocument(r) == r.kind = "html" /\ r.doc.tag = "html"

ChildWithTag(m, tag) ==
    m.children[CHOOSE i \in 1..Len(m.children) : m.children[i].tag = tag]

\* the products a response lists, in order
ProductList(r) == ChildWithTag(Markup(r), "products").items

\* the href of the "Bookmark or share" link of a response
LinkHref(r) == ChildWithTag(Markup(r), "a").href

Titles(list) == [i \in 1..Len(list) |-> list[i].title]

\* the script instructions of a response
ScriptIndexes(r) == {i \in 1..Len(r.events) : r.events[i].type = "script"}

\* the URL a history-replace script was given: what stands between the
\* two constant parts of the script
ScriptUrl(script) ==
    SubSeq(script, Len(ScriptPrefix) + 1, Len(script) - Len(ScriptSuffix))

IsReplaceStateScript(script) ==
    /\ IsPrefix(ScriptPrefix, script)
    /\ Len(script) >= Len(ScriptPrefix) + Len(ScriptSuffix)
    /\ SubSeq(script, Len(script) - Len(ScriptSuffix) + 1, Len(script)) = ScriptSuffix

\* q is a substring of title, without regard to case
ContainsIgnoringCase(title, q) ==
    \E i \in 1..(Len(title) - Len(q) + 1) :
        Lower(SubSeq(title, i, i + Len(q) - 1)) = Lower(q)

\* C2 as claimed: a record is in the result exactly when its size is the
\* Filter's size and the query is absent or a case-insensitive substring of
\* its title, also for a query that contains % or _.
C2_ExactSubstringMatch ==
    IsSearchRequest =>
        \A i \in 1..Len(products) :
            (\E j \in 1..Len(ProductList(resp)) : ProductList(resp)[j] = products[i])
            <=> /\ products[i].size = RequestFilter.size
                /\ \/ RequestFilter.query = Null
                   \/ ContainsIgnoringCase(products[i].title, RequestFilter.query.s)

\* the record set of the end-to-end scenario
ScenarioProducts ==
    << NewProduct(1, <<"A", "m", "a", "z", "i", "n", "g", " ",
                       "W", "i", "d", "g", "e", "t", " ", "1">>, small),
       NewProduct(2, <<"G", "r", "e", "a", "t", " ", "T", "o", "o", "l", " ", "2">>,
                  medium),
       NewProduct(3, <<"S", "u", "p", "e", "r", " ",
                       "G", "a", "d", "g", "e", "t", " ", "3">>, small) >>

ScenarioWidgetRequest ==
    /\ IsSearchRequest
    /\ products = ScenarioProducts
    /\ req.size = Str(small)
    /\ req.query = Str(<<"w", "i", "d", "g", "e", "t">>)

ScenarioPlainRequest ==
    /\ IsSearchRequest
    /\ products = ScenarioProducts
    /\ req.size = Undefined
    /\ req.query = Undefined

\* C8 as claimed: in the scenario size=small&query=widget lists
\* [Amazing Widget 1] and a request with no parameters lists
\* [Amazing Widget 1] only.
C8_ScenarioAsClaimed ==
    /\ ScenarioWidgetRequest =>
           Titles(ProductList(resp)) = <<ScenarioProducts[1].title>>
    /\ ScenarioPlainRequest =>
           Titles(ProductList(resp)) = <<ScenarioProducts[1].title>>

\* C8 as amended: in the scenario size=small&query=widget lists
\* [Amazing Widget 1] and a request with no parameters lists the small
\* records [Amazing Widget 1, Super Gadget 3], without the medium record.
C8_Scenario ==
    /\ ScenarioWidgetRequest =>
           Titles(ProductList(resp)) = <<ScenarioProducts[1].title>>
    /\ ScenarioPlainRequest =>
           Titles(ProductList(resp)) =
               <<ScenarioProducts[1].title, ScenarioProducts[3].title>>

\* the scenario's request with no parameters has listed two records
C8_Witness == ScenarioPlainRequest /\ Len(ProductList(resp)) = 2

\* C5: on /search-server-patch the URL of the history-replace script of a
\* fragment-mode response is the href of the link in the patched fragment,
\* and both are buildFilterUrl(request path, parsed query, parsed size); the
\* full page's link has that same href.
C5_OneUrlSource ==
    (req.op = "GET" /\ req.path = PathSearchServerPatch) =>
        LET url == buildFilterUrl(req.path, RequestFilter.query, RequestFilter.size)
        IN  /\ LinkHref(resp) = url
            /\ HeaderIsTrue(req) =>
                   /\ ScriptIndexes(resp) # {}
                   /\ \A i \in ScriptIndexes(resp) :
                          /\ IsReplaceStateScript(resp.events[i].script)
                          /\ ScriptUrl(resp.events[i].script) = url
                          /\ ScriptUrl(resp.events[i].script) = LinkHref(resp)

\* a fragment-mode response for the query "t 1" carries a script
C5_Witness ==
    /\ req.op = "GET"
    /\ req.path = PathSearchServerPatch
    /\ HeaderIsTrue(req)
    /\ req.query = Str(<<"t", " ", "1">>)
    /\ ScriptIndexes(resp) # {}

\* the Filter URLs a response carries: its link's and its scripts'
FilterUrls(r) ==
    {LinkHref(r)} \cup {ScriptUrl(r.events[i].script) : i \in ScriptIndexes(r)}

C6_AllRoutes ==
    IsSearchRequest =>
        /\ HeaderIsTrue(req) => ~IsFullDocument(resp)
        /\ ~HeaderIsTrue(req) => IsFullDocument(resp)

\* C6 as amended: on /search-update-url-client-side and /search-server-patch
\* a fragment-mode request never gets a full HTML document and every other
\* request gets one; /search-mpa answers every request, fragment-mode or
\* not, with a full HTML document.
C6_PatchRoutes ==
    IsSearchRequest =>
        IF req.path = PathSearchMpa
        THEN IsFullDocument(resp)
        ELSE /\ HeaderIsTrue(req) => ~IsFullDocument(resp)
             /\ ~HeaderIsTrue(req) => IsFullDocument(resp)

\* a fragment-mode request to /search-server-patch got an event stream
C6_Witness ==
    /\ req.op = "GET"
    /\ req.path = PathSearchServerPatch
    /\ HeaderIsTrue(req)
    /\ resp.kind = "event-stream"
    /\ Markup(resp).tag = "body"

\* C9: for the record set and the size and query parameters of the request
\* handled, the three search routes list the same products in the same
\* order, as a full page and as a fragment.
C9_SameProductList ==
    IsSearchRequest =>
        \A header \in RequestHeaders :
            \A mpa \in {SearchMpaResponse(
                            [req EXCEPT !.path = PathSearchMpa, !.header = header])},
               client \in {SearchUpdateUrlClientSideResponse(
                               [req EXCEPT !.path = PathSearchUpdateUrlClientSide,
                                           !.header = header])},
               patch \in {SearchServerPatchResponse(
                              [req EXCEPT !.path = PathSearchServerPatch,
                                          !.header = header])} :
                /\ ProductList(mpa) = ProductList(resp)
                /\ ProductList(client) = ProductList(resp)
                /\ ProductList(patch) = ProductList(resp)

\* a fragment lists two products or more
C9_Witness ==
    /\ IsSearchRequest
    /\ HeaderIsTrue(req)
    /\ resp.kind = "event-stream"
    /\ Len(ProductList(resp)) >= 2

\* C10: the stream of a fragment-mode request to
\* /search-update-url-client-side carries one patch instruction and no
\* script instruction.
C10_PatchOnly ==
    (req.op = "GET" /\ req.path = PathSearchUpdateUrlClientSide /\ HeaderIsTrue(req)) =>
        /\ resp.kind = "event-stream"
        /\ Len(resp.events) = 1
        /\ resp.events[1].type = "patch"
        /\ ScriptIndexes(resp) = {}

\* such a request has been answered with a stream of one instruction
C10_Witness ==
    /\ req.op = "GET"
    /\ req.path = PathSearchUpdateUrlClientSide
    /\ HeaderIsTrue(req)
    /\ Len(resp.events) = 1

\* C11: once the table is seeded no step changes it: whatever requests are
\* handled, in whatever order, the record set stays the one seeding left.
C11_RecordSetReadOnly == [][Len(products) = NumSeed => products' = products]_vars

\* a request has been handled on the seeded table
C11_Witness ==
    /\ req.op = "GET"
    /\ Len(products) = NumSeed
    /\ resp.kind # "none"

\* a stream of /search-server-patch is in progress or closed
IsPatchStream == req.op = "GET" /\ req.path = PathSearchServerPatch /\ IsStream

EventTypes(r) == [i \in 1..Len(r.events) |-> r.events[i].type]

\* what the stream holds is the start of: patch, script; a closed stream
\* holds both
C12_Order ==
    IsPatchStream =>
        /\ EventTypes(resp) \in {<<>>, <<"patch">>, <<"patch", "script">>}
        /\ resp.stream = "closed" => EventTypes(resp) = <<"patch", "script">>

\* a closed stream stays as it is until the request is over, and the
\* stream of a request is its only one
C12_NothingAfterClose ==
    (IsPatchStream /\ resp.stream = "closed") =>
        \/ resp' = resp /\ req' = req
        \/ resp'.kind = "none" /\ req'.op = "none"

\* C12: the stream of a fragment-mode request to /search-server-patch gets
\* the patch instruction first and the script instruction second and is
\* then closed: the script never precedes the patch, nothing is emitted
\* after the close, and every stream opened is closed in the end.
C12_StreamLifecycle ==
    /\ []C12_Order
    /\ [][C12_NothingAfterClose]_vars
    /\ (IsPatchStream /\ resp.stream = "open")
           ~> (IsPatchStream /\ resp.stream = "closed")

\* a stream of /search-server-patch is closed, with its two instructions
C12_Witness ==
    /\ IsPatchStream
    /\ resp.stream = "closed"
    /\ Len(resp.events) = 2

(***************************************************************************)
(* Reading a Filter URL back: c.req.query(key) on a request for the URL.   *)
(***************************************************************************)
\* the index of the first ch in s, 0 when there is none
IndexOf(s, ch) ==
    IF \E i \in 1..Len(s) : s[i] = ch
    THEN CHOOSE i \in 1..Len(s) : s[i] = ch /\ \A j \in 1..(i - 1) : s[j] # ch
    ELSE 0

\* s.split(ch)
RECURSIVE Split(_, _)
Split(s, ch) ==
    LET i == IndexOf(s, ch)
    IN  IF i = 0 THEN <<s>>
        ELSE <<SubSeq(s, 1, i - 1)>> \o Split(SubSeq(s, i + 1, Len(s)), ch)

DecodableEscapes ==
    {<<"2", "0">>, <<"2", "3">>, <<"2", "5">>, <<"2", "6">>, <<"2", "7">>,
     <<"2", "B">>, <<"2", "F">>, <<"3", "D">>, <<"3", "F">>}

\* a name or value of the query string decoded: + is a space, an escape is
\* its character, and a % that starts no escape stays
RECURSIVE DecodeQueryText(_)
DecodeQueryText(e) ==
    IF e = <<>> THEN <<>>
    ELSE IF Head(e) = "%" /\ Len(e) >= 3 /\ <<e[2], e[3]>> \in DecodableEscapes
         THEN <<UriUnescape(e[2], e[3])>> \o DecodeQueryText(SubSeq(e, 4, Len(e)))
    ELSE IF Head(e) = "+" THEN <<" ">> \o DecodeQueryText(Tail(e))
    ELSE <<Head(e)>> \o DecodeQueryText(Tail(e))

\* c.req.query(key) of a request for url: the value of the first key=value
\* pair with this key, undefined when there is none
QueryParam(url, key) ==
    LET i == IndexOf(url, "?")
        pairs == IF i = 0 THEN <<>> ELSE Split(SubSeq(url, i + 1, Len(url)), "&")
        Name(pair) ==
            LET e == IndexOf(pair, "=")
            IN  DecodeQueryText(IF e = 0 THEN pair ELSE SubSeq(pair, 1, e - 1))
        Value(pair) ==
            LET e == IndexOf(pair, "=")
            IN  DecodeQueryText(IF e = 0 THEN <<>> ELSE SubSeq(pair, e + 1, Len(pair)))
        hits == {k \in 1..Len(pairs) : Name(pairs[k]) = key}
    IN  IF hits = {} THEN Undefined
        ELSE Str(Value(pairs[CHOOSE k \in hits : \A h \in hits : k <= h]))

\* the Filter parsed from the size and query parameters of url
FilterOfUrl(url) ==
    parseFilterInput([size  |-> QueryParam(url, <<"s", "i", "z", "e">>),
                      query |-> QueryParam(url, <<"q", "u", "e", "r", "y">>)])

\* C13: the Filter URL of a request's Filter, read back through its size and
\* query parameters and parseFilterInput, gives a Filter that selects the
\* same records and builds the same URL again, whether the query is
\* absent, empty or not.
C13_RoundTrip ==
    IsSearchRequest =>
        \A f \in {RequestFilter} :
            \A url \in {buildFilterUrl(req.path, f.query, f.size)} :
                \A g \in {FilterOfUrl(url)} :
                    /\ getAllFilteredProducts(g.query, g.size)
                           = getAllFilteredProducts(f.query, f.size)
                    /\ buildFilterUrl(req.path, g.query, g.size) = url

\* a query that needs escaping has been built into a URL and read back,
\* and selects a record
C13_Witness ==
    /\ IsSearchRequest
    /\ req.query = Str(<<"t", " ", "1">>)
    /\ LET url == buildFilterUrl(req.path, RequestFilter.query, RequestFilter.size)
       IN  /\ FilterOfUrl(url).query = req.query
           /\ getAllFilteredProducts(FilterOfUrl(url).query, FilterOfUrl(url).size) # <<>>

\* the string literal a client reads at the place of the URL in a
\* history-replace script: the text from the opening quote to the next quote
QuotedLiteral(script) ==
    LET rest == SubSeq(script, Len(ScriptPrefix) + 1, Len(script))
    IN  SubSeq(rest, 1, IndexOf(rest, "'") - 1)

\* C14: the Filter URL in the history-replace script of /search-server-patch
\* holds no single quote, so that the single-quoted literal the client
\* evaluates is the Filter URL the server computed.
C14_LiteralIsFilterUrl ==
    (IsSearchRequest /\ req.path = PathSearchServerPatch /\ resp.kind = "event-stream") =>
        \A i \in ScriptIndexes(resp) :
            /\ \A k \in DOMAIN ScriptUrl(resp.events[i].script) :
                   ScriptUrl(resp.events[i].script)[k] # "'"
            /\ QuotedLiteral(resp.events[i].script)
                   = buildFilterUrl(req.path, RequestFilter.query, RequestFilter.size)

====
